---- MODULE Spec2Model ----
(***************************************************************************)
(* Account provider registry (src/src/lib.rs), account record model        *)
(* (src/src/models.rs) and the single-slot account store over the host     *)
(* localStorage bridge (src/src/storage.rs).                               *)
(*                                                                         *)
(* Representation.  A Rust String / &str is the sequence of its Unicode    *)
(* scalar values (<<97>> is "a", <<>> is "").  A serde_json::Value is a    *)
(* tagged record; the keys of a JSON object are TLA+ strings.  Option<T>   *)
(* is None or Some(v).                                                     *)
(***************************************************************************)
EXTENDS Integers, Sequences, FiniteSets, TLC

VARIABLES
    \* ---- host localStorage behind the bridge, and the store's callers
    storage,    \* key -> Option<Value>: what the host holds at each key
    pc,         \* caller -> where the caller's future is suspended
    req,        \* caller -> the store operation in progress and its arguments
    result,     \* caller -> the Result the finished operation returned
    calls,      \* caller -> the bridge methods the operation has invoked, in order
    replies,    \* caller -> how each of those invoke_frontend calls ended, in order
    before,     \* caller -> the value at the store's key when the operation began
    foreign,    \* caller -> has anyone else written the key since the operation began
    lastSaved,  \* key -> Some(record) while the last write of the key is a successful save of record
    \* ---- process-wide provider registry and its callers
    registry,   \* ACCOUNT_PROVIDERS: Uninit, or the Vec inside the Mutex
    mutex,      \* the Mutex: Free, or the caller holding the guard
    rpc,        \* registry caller -> position inside the registry function
    rreq,       \* registry caller -> the registry function called and its argument
    rloc,       \* registry caller -> the function's local state (cursor, accumulator)
    rres,       \* registry caller -> what the finished function returned
    added,      \* provider -> how many add_account_provider calls have been made with it
    expect,     \* the providers registered and not since removed, in the order the lock was taken
    \* ---- functions without bridge or registry: normalize_key, AccountRecord
    input,      \* the arguments: a provider name, or a record with a key and a type
    output,     \* the last result computed from input
    phase       \* which computation produced output

storeVars == <<storage, pc, req, result, calls, replies, before, foreign, lastSaved>>
regVars   == <<registry, mutex, rpc, rreq, rloc, rres, added, expect>>
keyVars   == <<input, output, phase>>
vars      == <<storage, pc, req, result, calls, replies, before, foreign, lastSaved,
               registry, mutex, rpc, rreq, rloc, rres, added, expect,
               input, output, phase>>

(***************************************************************************)
(* Bounds of the model.                                                    *)
(***************************************************************************)
\* longest provider name normalize_key is applied to
MaxLen == 3
\* most add_account_provider calls made in one run
MaxReg == 3
\* most records in what a provider's list_accounts returns
MaxListed == 2

(***************************************************************************)
(* Option<T>                                                               *)
(***************************************************************************)
None == [some |-> FALSE]
Some(v) == [some |-> TRUE, v |-> v]

(***************************************************************************)
(* Characters and strings                                                  *)
(***************************************************************************)
\* char::is_ascii_alphanumeric: '0'..='9' | 'A'..='Z' | 'a'..='z'
is_ascii_alphanumeric(ch) ==
    \/ (ch >= 48 /\ ch <= 57)
    \/ (ch >= 65 /\ ch <= 90)
    \/ (ch >= 97 /\ ch <= 122)

\* char::to_ascii_lowercase: 'A'..='Z' move to 'a'..='z', everything else stays
to_ascii_lowercase(ch) == IF ch >= 65 /\ ch <= 90 THEN ch + 32 ELSE ch

\* char::is_whitespace (the Unicode White_Space property)
is_whitespace(ch) ==
    \/ (ch >= 9 /\ ch <= 13)
    \/ ch \in {32, 133, 160, 5760, 8232, 8233, 8239, 8287, 12288}
    \/ (ch >= 8192 /\ ch <= 8202)

\* str::trim: drop leading and trailing whitespace
RECURSIVE trim_start(_)
trim_start(s) ==
    IF s # <<>> /\ is_whitespace(Head(s)) THEN trim_start(Tail(s)) ELSE s

RECURSIVE trim_end(_)
trim_end(s) ==
    IF s # <<>> /\ is_whitespace(s[Len(s)])
    THEN trim_end(SubSeq(s, 1, Len(s) - 1))
    ELSE s

trim(s) == trim_end(trim_start(s))

is_empty(s) == Len(s) = 0

\* A variant of normalize_key that replaces without lowercasing.
normalize_key_no_lowercase(input_) ==
    [i \in 1..Len(input_) |->
        IF is_ascii_alphanumeric(input_[i]) THEN input_[i] ELSE 95]

\* normalize_key: chars().map(..).collect(), one char out per char in
normalize_key(input_) ==
    [i \in 1..Len(input_) |->
        IF is_ascii_alphanumeric(input_[i])
        THEN to_ascii_lowercase(input_[i])
        ELSE 95]

\* the literal "account_provider_" of AccountStore::new's format!
KeyPrefix ==
    <<97, 99, 99, 111, 117, 110, 116, 95, 112, 114, 111, 118, 105, 100, 101, 114, 95>>

\* A variant of AccountStore::new that uses the provider name as it is.
AccountStore_new_verbatim(provider_name) == [key |-> KeyPrefix \o provider_name]

\* AccountStore::new(provider_name)
AccountStore_new(provider_name) ==
    [key |-> KeyPrefix \o normalize_key(provider_name)]

\* AccountStore::with_key(key)
AccountStore_with_key(k) == [key |-> k]

\* AccountStore::key(&self)
key(self) == self.key

(***************************************************************************)
(* Result<T> and anyhow::Error                                             *)
(***************************************************************************)
Ok(v) == [ok |-> TRUE, v |-> v]
Err(e) == [ok |-> FALSE, err |-> e]

\* the () of Result<()>
Unit == [unit |-> TRUE]

\* anyhow!(msg): an error that is only its message
anyhow(msg) == [msg |-> msg, cause |-> "none"]

\* .with_context(|| msg) on a failed call: the message wraps the cause
with_context(msg, cause) == [msg |-> msg, cause |-> cause]

(***************************************************************************)
(* serde_json::Value                                                       *)
(***************************************************************************)
JNull == [t |-> "null"]
JNum(n) == [t |-> "number", n |-> n]
JStr(s) == [t |-> "string", s |-> s]
JArr(a) == [t |-> "array", a |-> a]
JObj(m) == [t |-> "object", m |-> m]

\* Map::new()
EmptyMap == [k \in {} |-> JNull]

(***************************************************************************)
(* AccountRecord and its derived Serialize / Deserialize                   *)
(***************************************************************************)
\* AccountRecord::new(id, name)
AccountRecord_new(id, name) ==
    [id |-> id, name |-> name, avatar |-> None, token |-> None, extra |-> EmptyMap]

\* Serialize for Option<String>: None is null, Some(s) is the string
ser_option_string(o) == IF o.some THEN JStr(o.v) ELSE JNull

\* A variant of to_value that skips the extra map.
to_value_drops_extra(account) ==
    JObj([id     |-> JStr(account.id),
          name   |-> JStr(account.name),
          avatar |-> ser_option_string(account.avatar),
          token  |-> ser_option_string(account.token),
          extra  |-> JObj(EmptyMap)])

\* serde_json::to_value(&AccountRecord): a JSON object of the five fields
to_value(account) ==
    JObj([id     |-> JStr(account.id),
          name   |-> JStr(account.name),
          avatar |-> ser_option_string(account.avatar),
          token  |-> ser_option_string(account.token),
          extra  |-> JObj(account.extra)])

\* Deserialize for String
de_string(v) == IF v.t = "string" THEN Ok(v.s) ELSE Err("invalid type")

\* Deserialize for Option<String>: null is None
de_option_string(v) ==
    CASE v.t = "null"   -> Ok(None)
      [] v.t = "string" -> Ok(Some(v.s))
      [] OTHER          -> Err("invalid type")

\* Deserialize for Map<String, Value>
de_map(v) == IF v.t = "object" THEN Ok(v.m) ELSE Err("invalid type")

\* the record of five deserialized fields, or the first field error
de_fields(id, name, avatar, token, extra) ==
    CASE ~id.ok     -> id
      [] ~name.ok   -> name
      [] ~avatar.ok -> avatar
      [] ~token.ok  -> token
      [] ~extra.ok  -> extra
      [] OTHER      -> Ok([id |-> id.v, name |-> name.v, avatar |-> avatar.v,
                           token |-> token.v, extra |-> extra.v])

\* the derived visit_map: id and name are required, the #[serde(default)]
\* fields take their default when absent, unknown fields are ignored
de_struct_map(m) ==
    de_fields(
        IF "id" \in DOMAIN m THEN de_string(m["id"]) ELSE Err("missing field"),
        IF "name" \in DOMAIN m THEN de_string(m["name"]) ELSE Err("missing field"),
        IF "avatar" \in DOMAIN m THEN de_option_string(m["avatar"]) ELSE Ok(None),
        IF "token" \in DOMAIN m THEN de_option_string(m["token"]) ELSE Ok(None),
        IF "extra" \in DOMAIN m THEN de_map(m["extra"]) ELSE Ok(EmptyMap))

\* the derived visit_seq: the fields by position; serde_json rejects an
\* array with elements left over
de_struct_seq(a) ==
    IF Len(a) > 5 THEN Err("invalid length")
    ELSE de_fields(
        IF Len(a) >= 1 THEN de_string(a[1]) ELSE Err("invalid length"),
        IF Len(a) >= 2 THEN de_string(a[2]) ELSE Err("invalid length"),
        IF Len(a) >= 3 THEN de_option_string(a[3]) ELSE Ok(None),
        IF Len(a) >= 4 THEN de_option_string(a[4]) ELSE Ok(None),
        IF Len(a) >= 5 THEN de_map(a[5]) ELSE Ok(EmptyMap))

\* serde_json::from_value::<AccountRecord>(value)
from_value(value) ==
    CASE value.t = "object" -> de_struct_map(value.m)
      [] value.t = "array"  -> de_struct_seq(value.a)
      [] OTHER              -> Err("invalid type")

\* Deserialize for Option<Value>, the bridge's get_json reply: null is None
de_option_value(reply) ==
    IF reply.some /\ reply.v.t # "null" THEN reply ELSE None

(***************************************************************************)
(* The values the model draws its inputs from                              *)
(***************************************************************************)
\* account ids: "a", "b", "A", " a", "", " ", "\t\u{3000}"
Id_a == <<97>>
Id_b == <<98>>
Id_upper_a == <<65>>
Id_space_a == <<32, 97>>
Id_empty == <<>>
Id_blank == <<32>>
Id_wide_blank == <<9, 12288>>

AccountIds == {Id_a, Id_b, Id_upper_a, Id_space_a, Id_empty, Id_blank, Id_wide_blank}

\* the records callers hand to save and upsert_account
Accounts ==
    { AccountRecord_new(Id_a, <<110>>),
      [id |-> Id_a, name |-> <<109>>, avatar |-> Some(<<117>>), token |-> Some(<<116>>),
       extra |-> [k1 |-> JNum(1), k2 |-> JObj([z |-> JNull])]],
      [id |-> Id_b, name |-> <<110>>, avatar |-> None, token |-> Some(<<116>>),
       extra |-> [k1 |-> JStr(<<120>>)]],
      [id |-> Id_upper_a, name |-> <<110>>, avatar |-> Some(<<>>), token |-> None,
       extra |-> [k2 |-> JArr(<<JNum(1), JNull>>)]],
      AccountRecord_new(Id_space_a, <<>>),
      AccountRecord_new(Id_empty, <<110>>),
      AccountRecord_new(Id_blank, <<110>>),
      [id |-> Id_wide_blank, name |-> <<109>>, avatar |-> None, token |-> None,
       extra |-> [k1 |-> JNull]] }

\* what the host page itself may leave at a key: records written by an
\* earlier version (fields missing, fields unknown), and values that are
\* no AccountRecord
HostValues ==
    { JObj([id |-> JStr(Id_a), name |-> JStr(<<110>>)]),
      JObj([id |-> JStr(Id_b), name |-> JStr(<<110>>), avatar |-> JNull,
            legacy |-> JNum(7)]),
      JArr(<<JStr(Id_b), JStr(<<109>>)>>),
      JObj([name |-> JStr(<<110>>)]),
      JObj([id |-> JStr(Id_a), name |-> JStr(<<110>>), extra |-> JNull]),
      JObj([id |-> JNum(1), name |-> JStr(<<110>>)]),
      JStr(Id_a),
      JNull }

\* the provider names stores are made for: "A B" and "a_b"
StoreNames == { <<65, 32, 66>>, <<97, 95, 98>> }

\* the stores of the model, and their keys
Stores == { AccountStore_new(n) : n \in StoreNames }
Keys == { key(s) : s \in Stores }

(***************************************************************************)
(* The bridge: invoke_frontend and the host's localStorage                 *)
(***************************************************************************)
\* METHOD_STORAGE_GET_JSON, METHOD_STORAGE_SET_JSON, METHOD_STORAGE_REMOVE
METHOD_STORAGE_GET_JSON == "host/storage/local/get_json"
METHOD_STORAGE_SET_JSON == "host/storage/local/set_json"
METHOD_STORAGE_REMOVE == "host/storage/local/remove"

\* the host's reply to get_json: the stored JSON, or null for an absent key
host_get_json(k) == IF storage[k].some THEN storage[k].v ELSE JNull

\* how an invoke_frontend of get_json can end: the reply, or a failed call
GetOutcomes(k) == { Ok(host_get_json(k)), Err("invoke_frontend") }

\* how an invoke_frontend of set_json or remove can end: acknowledged and
\* applied, refused, or a failed call that the host may or may not have
\* carried out before the failure
AckOutcomes ==
    { [reply |-> Ok([success |-> TRUE]), applied |-> TRUE],
      [reply |-> Ok([success |-> FALSE]), applied |-> FALSE],
      [reply |-> Err("invoke_frontend"), applied |-> FALSE],
      [reply |-> Err("invoke_frontend"), applied |-> TRUE] }

\* local_storage_get_json::<AccountRecord>, from the await on
local_storage_get_json(invoked) ==
    IF ~invoked.ok
    THEN Err(with_context("localStorage get_json", invoked.err))
    ELSE LET value == de_option_value(Some(invoked.v)) IN
         IF value.some
         THEN LET d == from_value(value.v) IN
              IF d.ok
              THEN Ok(Some(d.v))
              ELSE Err(with_context("deserialize value stored in localStorage", d.err))
         ELSE Ok(None)

\* A variant of local_storage_set_json that reports a refusal the way it
\* reports a failed call.
local_storage_set_json_flat(invoked) ==
    IF invoked.ok /\ invoked.v.success
    THEN Ok(Unit)
    ELSE Err(with_context("localStorage set_json", "invoke_frontend"))

\* local_storage_set_json, from the await on
local_storage_set_json(invoked) ==
    IF ~invoked.ok
    THEN Err(with_context("localStorage set_json", invoked.err))
    ELSE IF invoked.v.success
         THEN Ok(Unit)
         ELSE Err(anyhow("frontend rejected localStorage set_json"))

\* A variant of local_storage_remove that takes any answered call for done.
local_storage_remove_lenient(invoked) ==
    IF ~invoked.ok
    THEN Err(with_context("localStorage remove", invoked.err))
    ELSE Ok(Unit)

\* local_storage_remove, from the await on
local_storage_remove(invoked) ==
    IF ~invoked.ok
    THEN Err(with_context("localStorage remove", invoked.err))
    ELSE IF invoked.v.success
         THEN Ok(Unit)
         ELSE Err(anyhow("frontend rejected localStorage remove"))

(***************************************************************************)
(* AccountStore: what each operation makes of the bridge's answer          *)
(***************************************************************************)
\* A variant of list_accounts that yields the record twice.
list_accounts_twice(loaded) ==
    IF loaded.ok
    THEN Ok(IF loaded.v.some THEN <<loaded.v.v, loaded.v.v>> ELSE <<>>)
    ELSE loaded

\* list_accounts: Ok(load?.into_iter().collect())
list_accounts_of(loaded) ==
    IF loaded.ok
    THEN Ok(IF loaded.v.some THEN <<loaded.v.v>> ELSE <<>>)
    ELSE loaded

\* A variant of get_account's filter that compares the ids after trimming.
get_account_of_trimmed(loaded, account_id) ==
    IF loaded.ok
    THEN Ok(IF loaded.v.some /\ trim(loaded.v.v.id) = trim(account_id)
            THEN loaded.v ELSE None)
    ELSE loaded

\* get_account: Ok(load?.filter(|account| account.id == account_id))
get_account_of(loaded, account_id) ==
    IF loaded.ok
    THEN Ok(IF loaded.v.some /\ loaded.v.v.id = account_id THEN loaded.v ELSE None)
    ELSE loaded

\* the smallest and the largest of a non-empty set of indices
Least(S) == CHOOSE i \in S : \A j \in S : i <= j
Greatest(S) == CHOOSE i \in S : \A j \in S : j <= i

\* A variant of the trait's get_account that keeps the last match.
default_get_account_last(listed, account_id) ==
    IF ~listed.ok THEN listed
    ELSE LET hits == { i \in 1..Len(listed.v) : listed.v[i].id = account_id } IN
         Ok(IF hits = {} THEN None ELSE Some(listed.v[Greatest(hits)]))

\* AccountProvider::get_account, the provided method, from the await of
\* list_accounts on: let accounts = self.list_accounts().await?;
\* Ok(accounts.into_iter().find(|acc| acc.id == account_id))
default_get_account(listed, account_id) ==
    IF ~listed.ok THEN listed
    ELSE LET hits == { i \in 1..Len(listed.v) : listed.v[i].id = account_id } IN
         Ok(IF hits = {} THEN None ELSE Some(listed.v[Least(hits)]))

\* A variant of the id check of upsert_account that tests the untrimmed id.
id_is_missing_untrimmed(account) == is_empty(account.id)

\* upsert_account's guard: account.id.trim().is_empty()
id_is_missing(account) == is_empty(trim(account.id))

\* A variant of the match of remove_account that clears whatever is stored.
remove_matches_any(loaded, account_id) == loaded.some

\* A variant of the match of remove_account that compares trimmed ids.
remove_matches_trimmed(loaded, account_id) ==
    loaded.some /\ trim(loaded.v.id) = trim(account_id)

\* remove_account's match: Some(account) with account.id == account_id
remove_matches(loaded, account_id) ==
    loaded.some /\ loaded.v.id = account_id

\* A variant of upsert_account's return value that hands back the stored id only.
upsert_returns_bare(account) == AccountRecord_new(account.id, account.name)

\* upsert_account's return value: Ok(account), the argument moved back out
upsert_returns(account) == account

(***************************************************************************)
(* The store's callers                                                     *)
(***************************************************************************)
Callers == {"c1", "c2"}

\* the callers that run in Spec: one, with the host writing beside it
SeqCallers == {"c1"}

NoReq == [op |-> "none"]
Pending == [pending |-> TRUE]

InitStore ==
    /\ storage = [k \in Keys |-> None]
    /\ pc = [c \in Callers |-> "idle"]
    /\ req = [c \in Callers |-> NoReq]
    /\ result = [c \in Callers |-> Pending]
    /\ calls = [c \in Callers |-> <<>>]
    /\ replies = [c \in Callers |-> <<>>]
    /\ before = [c \in Callers |-> None]
    /\ foreign = [c \in Callers |-> FALSE]
    /\ lastSaved = [k \in Keys |-> None]

\* the callers, other than who, that have an operation on key k under way
\* or finished and not yet returned
Watching(who, k) ==
    { d \in Callers : d # who /\ pc[d] # "idle" /\ req[d].key = k }

\* the host carries out a write of key k on behalf of who
HostApply(who, k, value, saved) ==
    /\ storage' = [storage EXCEPT ![k] = value]
    /\ foreign' = [d \in Callers |-> foreign[d] \/ d \in Watching(who, k)]
    /\ lastSaved' = [lastSaved EXCEPT ![k] = saved]

\* caller c starts operation r and suspends in its first bridge call
Start(c, r, method) ==
    /\ pc[c] = "idle"
    /\ pc' = [pc EXCEPT ![c] = method]
    /\ req' = [req EXCEPT ![c] = r]
    /\ calls' = [calls EXCEPT ![c] = <<method>>]
    /\ replies' = [replies EXCEPT ![c] = <<>>]
    /\ before' = [before EXCEPT ![c] = storage[r.key]]
    /\ foreign' = [foreign EXCEPT ![c] = FALSE]
    /\ UNCHANGED <<storage, result, lastSaved>>
    /\ UNCHANGED <<regVars, keyVars>>

\* caller c's operation returns res
Finish(c, res) ==
    /\ pc' = [pc EXCEPT ![c] = "done"]
    /\ result' = [result EXCEPT ![c] = res]

\* AccountStore::load, up to the await of get_json
load(c, s) == Start(c, [op |-> "load", key |-> key(s)], METHOD_STORAGE_GET_JSON)

\* AccountStore::save, up to the await of set_json
save(c, s, account) ==
    Start(c, [op |-> "save", key |-> key(s), account |-> account],
          METHOD_STORAGE_SET_JSON)

\* AccountStore::clear, up to the await of remove
clear(c, s) == Start(c, [op |-> "clear", key |-> key(s)], METHOD_STORAGE_REMOVE)

\* AccountStore::list_accounts, up to the await of get_json
list_accounts(c, s) ==
    Start(c, [op |-> "list_accounts", key |-> key(s)], METHOD_STORAGE_GET_JSON)

\* AccountStore::get_account, up to the await of get_json
get_account(c, s, account_id) ==
    Start(c, [op |-> "get_account", key |-> key(s), account_id |-> account_id],
          METHOD_STORAGE_GET_JSON)

\* AccountStore::upsert_account, up to the await of set_json, or to the
\* early return when the id is missing
upsert_account(c, s, account) ==
    LET r == [op |-> "upsert_account", key |-> key(s), account |-> account] IN
    IF id_is_missing(account)
    THEN /\ pc[c] = "idle"
         /\ req' = [req EXCEPT ![c] = r]
         /\ calls' = [calls EXCEPT ![c] = <<>>]
         /\ replies' = [replies EXCEPT ![c] = <<>>]
         /\ before' = [before EXCEPT ![c] = storage[r.key]]
         /\ foreign' = [foreign EXCEPT ![c] = FALSE]
         /\ Finish(c, Err(anyhow("account id is required")))
         /\ UNCHANGED <<storage, lastSaved>>
         /\ UNCHANGED <<regVars, keyVars>>
    ELSE Start(c, r, METHOD_STORAGE_SET_JSON)

\* AccountStore::remove_account, up to the await of get_json
remove_account(c, s, account_id) ==
    Start(c, [op |-> "remove_account", key |-> key(s), account_id |-> account_id],
          METHOD_STORAGE_GET_JSON)

\* AccountProvider::get_account (the provided method) of a provider whose
\* list_accounts is its AccountStore's, up to the await of get_json
provider_get_account(c, s, account_id) ==
    Start(c, [op |-> "provider_get_account", key |-> key(s),
              account_id |-> account_id],
          METHOD_STORAGE_GET_JSON)

\* AccountProvider::get_account (the provided method) of a provider whose
\* list_accounts is going to return listed, up to the await of
\* list_accounts; such a provider has no store key
listing_get_account(c, listed, account_id) ==
    /\ pc[c] = "idle"
    /\ pc' = [pc EXCEPT ![c] = "list_accounts"]
    /\ req' = [req EXCEPT ![c] = [op |-> "listing_get_account", key |-> <<>>,
                                  listed |-> listed, account_id |-> account_id]]
    /\ calls' = [calls EXCEPT ![c] = <<"list_accounts">>]
    /\ replies' = [replies EXCEPT ![c] = <<>>]
    /\ before' = [before EXCEPT ![c] = None]
    /\ foreign' = [foreign EXCEPT ![c] = FALSE]
    /\ UNCHANGED <<storage, result, lastSaved>>
    /\ UNCHANGED <<regVars, keyVars>>

\* the await of that provider's list_accounts ends: get_account returns
list_accounts_returns(c) ==
    /\ pc[c] = "list_accounts"
    /\ replies' = [replies EXCEPT ![c] = Append(@, req[c].listed)]
    /\ Finish(c, default_get_account(req[c].listed, req[c].account_id))
    /\ UNCHANGED <<storage, req, calls, before, foreign, lastSaved>>
    /\ UNCHANGED <<regVars, keyVars>>

\* the await of get_json ends: load, list_accounts and get_account return,
\* remove_account returns or goes on to clear
get_json_returns(c) ==
    /\ pc[c] = METHOD_STORAGE_GET_JSON
    /\ \E invoked \in GetOutcomes(req[c].key) :
         LET loaded == local_storage_get_json(invoked) IN
         /\ replies' = [replies EXCEPT ![c] = Append(@, invoked)]
         /\ CASE req[c].op = "load" ->
                   /\ Finish(c, loaded)
                   /\ UNCHANGED calls
              [] req[c].op = "list_accounts" ->
                   /\ Finish(c, list_accounts_of(loaded))
                   /\ UNCHANGED calls
              [] req[c].op = "get_account" ->
                   /\ Finish(c, get_account_of(loaded, req[c].account_id))
                   /\ UNCHANGED calls
              [] req[c].op = "provider_get_account" ->
                   /\ Finish(c, default_get_account(list_accounts_of(loaded),
                                                    req[c].account_id))
                   /\ UNCHANGED calls
              [] req[c].op = "remove_account" ->
                   IF ~loaded.ok
                   THEN Finish(c, loaded) /\ UNCHANGED calls
                   ELSE IF remove_matches(loaded.v, req[c].account_id)
                        THEN /\ pc' = [pc EXCEPT ![c] = METHOD_STORAGE_REMOVE]
                             /\ calls' = [calls EXCEPT ![c] = Append(@, METHOD_STORAGE_REMOVE)]
                             /\ UNCHANGED result
                        ELSE Finish(c, Ok(Unit)) /\ UNCHANGED calls
    /\ UNCHANGED <<storage, req, before, foreign, lastSaved>>
    /\ UNCHANGED <<regVars, keyVars>>

\* the await of set_json ends: save and upsert_account return
set_json_returns(c) ==
    /\ pc[c] = METHOD_STORAGE_SET_JSON
    /\ \E o \in AckOutcomes :
         LET saved == local_storage_set_json(o.reply) IN
         /\ replies' = [replies EXCEPT ![c] = Append(@, o.reply)]
         /\ IF o.applied
            THEN HostApply(c, req[c].key, Some(to_value(req[c].account)),
                           IF saved.ok THEN Some(req[c].account) ELSE None)
            ELSE UNCHANGED <<storage, foreign, lastSaved>>
         /\ Finish(c, IF req[c].op = "upsert_account" /\ saved.ok
                      THEN Ok(upsert_returns(req[c].account))
                      ELSE saved)
    /\ UNCHANGED <<req, calls, before>>
    /\ UNCHANGED <<regVars, keyVars>>

\* the await of remove ends: clear and remove_account return
remove_returns(c) ==
    /\ pc[c] = METHOD_STORAGE_REMOVE
    /\ \E o \in AckOutcomes :
         /\ replies' = [replies EXCEPT ![c] = Append(@, o.reply)]
         /\ IF o.applied
            THEN HostApply(c, req[c].key, None, None)
            ELSE UNCHANGED <<storage, foreign, lastSaved>>
         /\ Finish(c, local_storage_remove(o.reply))
    /\ UNCHANGED <<req, calls, before>>
    /\ UNCHANGED <<regVars, keyVars>>

\* the caller takes the result; it is idle again
Return(c) ==
    /\ pc[c] = "done"
    /\ pc' = [pc EXCEPT ![c] = "idle"]
    /\ req' = [req EXCEPT ![c] = NoReq]
    /\ result' = [result EXCEPT ![c] = Pending]
    /\ calls' = [calls EXCEPT ![c] = <<>>]
    /\ replies' = [replies EXCEPT ![c] = <<>>]
    /\ before' = [before EXCEPT ![c] = None]
    /\ foreign' = [foreign EXCEPT ![c] = FALSE]
    /\ UNCHANGED <<storage, lastSaved>>
    /\ UNCHANGED <<regVars, keyVars>>

\* the host page writes or deletes the key itself
HostWrite(k) ==
    /\ \E value \in {None} \cup {Some(v) : v \in HostValues}
                       \cup {Some(to_value(a)) : a \in Accounts} :
         /\ value # storage[k]
         /\ HostApply("host", k, value, None)
    /\ UNCHANGED <<pc, req, result, calls, replies, before>>
    /\ UNCHANGED <<regVars, keyVars>>

(***************************************************************************)
(* Key normalisation as a computation on one provider name                 *)
(***************************************************************************)
\* the characters provider names are drawn from:
\* ' ' '!' '0' '9' '@' 'A' 'Z' '[' '_' 'a' 'z' and U+00E9
KeyChars == {32, 33, 48, 57, 64, 65, 90, 91, 95, 97, 122, 233}

\* every string over KeyChars of length at most n
RECURSIVE StringsUpTo(_)
StringsUpTo(n) ==
    IF n = 0 THEN {<<>>}
    ELSE LET shorter == StringsUpTo(n - 1) IN
         shorter \cup { Append(t, ch) : t \in shorter, ch \in KeyChars }

\* "My Provider!"
MyProvider == <<77, 121, 32, 80, 114, 111, 118, 105, 100, 101, 114, 33>>

InitKey ==
    /\ input \in StringsUpTo(MaxLen) \cup {MyProvider}
    /\ output = <<>>
    /\ phase = "input"

InitKeyIdle ==
    /\ input = <<>>
    /\ output = <<>>
    /\ phase = "input"

\* normalize_key(input)
Normalize ==
    /\ phase = "input"
    /\ output' = <<normalize_key(input)>>
    /\ phase' = "normalized"
    /\ UNCHANGED <<input, storeVars, regVars>>

\* normalize_key applied to its own result
NormalizeAgain ==
    /\ phase = "normalized"
    /\ output' = Append(output, normalize_key(output[1]))
    /\ phase' = "renormalized"
    /\ UNCHANGED <<input, storeVars, regVars>>

\* AccountStore::new(input).key()
NewStore ==
    /\ phase = "input"
    /\ output' = <<key(AccountStore_new(input))>>
    /\ phase' = "key"
    /\ UNCHANGED <<input, storeVars, regVars>>

(***************************************************************************)
(* The provider registry: ACCOUNT_PROVIDERS and its four functions         *)
(***************************************************************************)
\* the provider instances (Arc<dyn AccountProvider>) of the model
Providers == {"p1", "p2", "p3"}

\* AccountProvider::provider_name: p1 and p2 are both "x", p3 is "y"
provider_name(p) == IF p = "p3" THEN <<121>> ELSE <<120>>

\* the names looked up and removed: "x", "y" and the unregistered "z"
ProviderNames == { <<120>>, <<121>>, <<122>> }

\* the threads calling into the registry
RegCallers == {"t1", "t2", "t3"}

\* the threads that run in SpecReg, where all four functions are called
RegPair == {"t1", "t2"}

\* OnceLock before and after its initialisation
Uninit == [init |-> FALSE]
Inited(vec) == [init |-> TRUE, vec |-> vec]

Free == "free"

\* A variant of get_or_init that builds a fresh Vec on every call.
get_or_init_always_fresh(cell) == Inited(<<>>)

\* ACCOUNT_PROVIDERS.get_or_init(|| Mutex::new(Vec::new()))
get_or_init(cell) == IF cell.init THEN cell ELSE Inited(<<>>)

\* A variant of lock() that does not wait for the holder.
may_lock_unguarded(c) == TRUE

\* A variant of the lock that lets the two reading functions in at once
\* with whoever holds the guard.
may_lock_readers_pass(c) == mutex = Free \/ rreq[c].op \in {"get", "list"}

\* providers.lock(): the caller gets the guard once nobody holds it
may_lock(c) == mutex = Free

\* A variant of the retain predicate that never tests the last entry.
retain_drops_skips_last(vec, i, name) ==
    provider_name(vec[i]) = name /\ i < Len(vec)

\* the retain closure negated: the entry at i goes when its name is name
retain_drops(vec, i, name) == provider_name(vec[i]) = name

\* A variant of the lookup loop that remembers the latest match.
scan_hit_last(vec, i, name) ==
    /\ provider_name(vec[i]) = name
    /\ \A j \in (i + 1)..Len(vec) : provider_name(vec[j]) # name

\* the lookup loop's test: the entry at i is returned when its name is name
scan_hit(vec, i, name) == provider_name(vec[i]) = name

\* A variant of push that puts the new entry in front.
pushed_front(vec, len, provider) == <<provider>> \o SubSeq(vec, 1, len)

\* Vec::push: the slot after the last is written and the length set
pushed(vec, len, provider) == Append(SubSeq(vec, 1, len), provider)

\* the sequence s without its element at i
RemoveAt(s, i) == SubSeq(s, 1, i - 1) \o SubSeq(s, i + 1, Len(s))

\* how many times x occurs in the sequence s
Count(s, x) == Cardinality({ i \in 1..Len(s) : s[i] = x })

\* the registration history: what the registry holds once the registry
\* functions that have taken the lock so far have run, one after the other
SeqContents(r, v) ==
    CASE r.op = "add"    -> Append(v, r.provider)
      [] r.op = "remove" -> SelectSeq(v, LAMBDA q : provider_name(q) # r.name)
      [] OTHER           -> v

FirstNamed(v, name) ==
    LET hits == { i \in 1..Len(v) : provider_name(v[i]) = name } IN
    IF hits = {} THEN None
    ELSE Some(v[CHOOSE i \in hits : \A j \in hits : i <= j])

NamesOf(v) == [i \in 1..Len(v) |-> provider_name(v[i])]

RegRequests ==
    { [op |-> "add", provider |-> p] : p \in Providers }
    \cup { [op |-> "remove", name |-> n] : n \in ProviderNames }
    \cup { [op |-> "get", name |-> n] : n \in ProviderNames }
    \cup { [op |-> "list"] }

NoLocals == [i |-> 0]

InitReg ==
    /\ registry = Uninit
    /\ mutex = Free
    /\ rpc = [c \in RegCallers |-> "idle"]
    /\ rreq = [c \in RegCallers |-> NoReq]
    /\ rloc = [c \in RegCallers |-> NoLocals]
    /\ rres = [c \in RegCallers |-> Pending]
    /\ added = [p \in Providers |-> 0]
    /\ expect = <<>>

\* the add_account_provider calls made so far
RECURSIVE Total(_, _)
Total(f, S) ==
    IF S = {} THEN 0
    ELSE LET x == CHOOSE x \in S : TRUE IN f[x] + Total(f, S \ {x})

\* a thread enters a registry function: its first statement is get_or_init
Enter(c, r) ==
    /\ rpc[c] = "idle"
    /\ rpc' = [rpc EXCEPT ![c] = "lock"]
    /\ rreq' = [rreq EXCEPT ![c] = r]
    /\ rloc' = [rloc EXCEPT ![c] = NoLocals]
    /\ rres' = [rres EXCEPT ![c] = Pending]
    /\ registry' = get_or_init(registry)
    /\ UNCHANGED <<mutex, expect, storeVars, keyVars>>

\* add_account_provider(provider) is called
add_account_provider(c, provider) ==
    /\ Total(added, Providers) < MaxReg
    /\ added' = [added EXCEPT ![provider] = @ + 1]
    /\ Enter(c, [op |-> "add", provider |-> provider])

\* remove_account_provider(name) is called
remove_account_provider(c, name) ==
    /\ Enter(c, [op |-> "remove", name |-> name])
    /\ UNCHANGED added

\* get_account_provider(name) is called
get_account_provider(c, name) ==
    /\ Enter(c, [op |-> "get", name |-> name])
    /\ UNCHANGED added

\* list_account_providers() is called
list_account_providers(c) ==
    /\ Enter(c, [op |-> "list"])
    /\ UNCHANGED added

\* providers.lock().unwrap() returns the guard
lock(c) ==
    /\ rpc[c] = "lock"
    /\ may_lock(c)
    /\ mutex' = c
    /\ rpc' = [rpc EXCEPT ![c] = "body"]
    /\ rloc' = [rloc EXCEPT ![c] = [i |-> 1, acc |-> <<>>]]
    /\ expect' = SeqContents(rreq[c], expect)
    /\ UNCHANGED <<registry, rreq, rres, added, storeVars, keyVars>>

\* locked.push(provider), first half: read the Vec's length
push_read(c) ==
    /\ rpc[c] = "body"
    /\ rreq[c].op = "add"
    /\ rloc' = [rloc EXCEPT ![c].i = Len(registry.vec)]
    /\ rpc' = [rpc EXCEPT ![c] = "push"]
    /\ UNCHANGED <<registry, mutex, rreq, rres, added, expect, storeVars, keyVars>>

\* locked.push(provider), second half: write the slot, set the length
push_write(c) ==
    /\ rpc[c] = "push"
    /\ registry' = Inited(pushed(registry.vec, rloc[c].i, rreq[c].provider))
    /\ rres' = [rres EXCEPT ![c] = Unit]
    /\ rpc' = [rpc EXCEPT ![c] = "unlock"]
    /\ UNCHANGED <<mutex, rreq, rloc, added, expect, storeVars, keyVars>>

\* locked.retain(..): one entry visited, or the end of the Vec reached
retain_step(c) ==
    /\ rpc[c] = "body"
    /\ rreq[c].op = "remove"
    /\ IF rloc[c].i > Len(registry.vec)
       THEN /\ rres' = [rres EXCEPT ![c] = Unit]
            /\ rpc' = [rpc EXCEPT ![c] = "unlock"]
            /\ UNCHANGED <<registry, rloc>>
       ELSE IF retain_drops(registry.vec, rloc[c].i, rreq[c].name)
            THEN /\ registry' = Inited(RemoveAt(registry.vec, rloc[c].i))
                 /\ UNCHANGED <<rloc, rres, rpc>>
            ELSE /\ rloc' = [rloc EXCEPT ![c].i = @ + 1]
                 /\ UNCHANGED <<registry, rres, rpc>>
    /\ UNCHANGED <<mutex, rreq, added, expect, storeVars, keyVars>>

\* get_account_provider's for loop: one entry visited, or the end reached
scan_step(c) ==
    /\ rpc[c] = "body"
    /\ rreq[c].op = "get"
    /\ IF rloc[c].i > Len(registry.vec)
       THEN /\ rres' = [rres EXCEPT ![c] = None]
            /\ rpc' = [rpc EXCEPT ![c] = "unlock"]
            /\ UNCHANGED rloc
       ELSE IF scan_hit(registry.vec, rloc[c].i, rreq[c].name)
            THEN /\ rres' = [rres EXCEPT ![c] = Some(registry.vec[rloc[c].i])]
                 /\ rpc' = [rpc EXCEPT ![c] = "unlock"]
                 /\ UNCHANGED rloc
            ELSE /\ rloc' = [rloc EXCEPT ![c].i = @ + 1]
                 /\ UNCHANGED <<rres, rpc>>
    /\ UNCHANGED <<registry, mutex, rreq, added, expect, storeVars, keyVars>>

\* list_account_providers' iter().map().collect(): one name collected, or
\* the end reached
collect_step(c) ==
    /\ rpc[c] = "body"
    /\ rreq[c].op = "list"
    /\ IF rloc[c].i > Len(registry.vec)
       THEN /\ rres' = [rres EXCEPT ![c] = rloc[c].acc]
            /\ rpc' = [rpc EXCEPT ![c] = "unlock"]
            /\ UNCHANGED rloc
       ELSE /\ rloc' = [rloc EXCEPT ![c].i = @ + 1,
                                    ![c].acc = Append(@, provider_name(registry.vec[rloc[c].i]))]
            /\ UNCHANGED <<rres, rpc>>
    /\ UNCHANGED <<registry, mutex, rreq, added, expect, storeVars, keyVars>>

\* the guard is dropped as the function returns its result; the thread is
\* free to call again
unlock(c) ==
    /\ rpc[c] = "unlock"
    /\ mutex' = IF mutex = c THEN Free ELSE mutex
    /\ rpc' = [rpc EXCEPT ![c] = "idle"]
    /\ rreq' = [rreq EXCEPT ![c] = NoReq]
    /\ rloc' = [rloc EXCEPT ![c] = NoLocals]
    /\ rres' = [rres EXCEPT ![c] = Pending]
    /\ UNCHANGED <<registry, added, expect, storeVars, keyVars>>

(***************************************************************************)
(* Specifications                                                          *)
(***************************************************************************)
Init == InitStore /\ InitReg /\ InitKeyIdle

\* one store caller at a time, with the host page writing beside it
Next ==
    \/ \E c \in SeqCallers, s \in Stores : load(c, s)
    \/ \E c \in SeqCallers, s \in Stores, a \in Accounts : save(c, s, a)
    \/ \E c \in SeqCallers, s \in Stores : clear(c, s)
    \/ \E c \in SeqCallers, s \in Stores : list_accounts(c, s)
    \/ \E c \in SeqCallers, s \in Stores, id \in AccountIds : get_account(c, s, id)
    \/ \E c \in SeqCallers, s \in Stores, a \in Accounts : upsert_account(c, s, a)
    \/ \E c \in SeqCallers, s \in Stores, id \in AccountIds : remove_account(c, s, id)
    \/ \E c \in SeqCallers : get_json_returns(c)
    \/ \E c \in SeqCallers : set_json_returns(c)
    \/ \E c \in SeqCallers : remove_returns(c)
    \/ \E c \in SeqCallers : Return(c)
    \/ \E k \in Keys : HostWrite(k)

Spec == Init /\ [][Next]_vars

\* the steps the registry functions share, taken by the threads T
RegSteps(T) ==
    \/ \E c \in T : lock(c)
    \/ \E c \in T : push_read(c)
    \/ \E c \in T : push_write(c)
    \/ \E c \in T : scan_step(c)
    \/ \E c \in T : collect_step(c)
    \/ \E c \in T : unlock(c)

\* two threads calling all four registry functions
NextReg ==
    \/ \E c \in RegPair, p \in Providers : add_account_provider(c, p)
    \/ \E c \in RegPair, n \in ProviderNames : remove_account_provider(c, n)
    \/ \E c \in RegPair, n \in ProviderNames : get_account_provider(c, n)
    \/ \E c \in RegPair : list_account_providers(c)
    \/ \E c \in RegPair : retain_step(c)
    \/ RegSteps(RegPair)

SpecReg == Init /\ [][NextReg]_vars

\* three threads that register providers and read the registry, none
\* removing
NextAdd ==
    \/ \E c \in RegCallers, p \in Providers : add_account_provider(c, p)
    \/ \E c \in RegCallers, n \in ProviderNames : get_account_provider(c, n)
    \/ \E c \in RegCallers : list_account_providers(c)
    \/ RegSteps(RegCallers)

SpecAdd == Init /\ [][NextAdd]_vars

\* normalize_key and AccountStore::new on every provider name of the bound
InitNames == InitStore /\ InitReg /\ InitKey

NextKey == Normalize \/ NormalizeAgain \/ NewStore

SpecKey == InitNames /\ [][NextKey]_vars

(***************************************************************************)
(* Properties of the provider registry                                     *)
(***************************************************************************)
\* no thread is inside a registry function
Quiescent == \A c \in RegCallers : rpc[c] = "idle"

\* how many add_account_provider calls were made with a provider named n
AddedNamed(n) ==
    Total([p \in Providers |-> IF provider_name(p) = n THEN added[p] ELSE 0], Providers)

\* C4: no lost updates. Once every add_account_provider call made so far
\* has returned, the registry holds each provider exactly as many times as
\* it was added, whatever the interleaving and whoever initialised the
\* registry; and a list_account_providers that runs with no add under way
\* returns each name as many times as providers of that name were added.
NoLostUpdates ==
    /\ Quiescent /\ Total(added, Providers) > 0 =>
         /\ registry.init
         /\ \A p \in Providers : Count(registry.vec, p) = added[p]
    /\ \A c \in RegCallers :
         ( /\ rpc[c] = "unlock"
           /\ rreq[c].op = "list"
           /\ \A d \in RegCallers \ {c} : rpc[d] = "idle" \/ rreq[d].op # "add" )
         => \A n \in ProviderNames : Count(rres[c], n) = AddedNamed(n)

\* C4 witness: the three providers were added by calls that have all
\* returned, and the registry holds the three entries, p3 first.
NoLostUpdatesReached ==
    /\ Quiescent
    /\ \A p \in Providers : added[p] = 1
    /\ registry.init /\ Len(registry.vec) = 3 /\ registry.vec[1] = "p3"

\* C5: duplicate names are kept and lookup returns the first. A
\* get_account_provider(name) returns the earliest registered provider
\* still present with that name, and list_account_providers returns the
\* name once per registered entry.
FirstOfDuplicates ==
    \A c \in RegCallers :
      rpc[c] = "unlock" =>
        /\ rreq[c].op = "get" => rres[c] = FirstNamed(expect, rreq[c].name)
        /\ rreq[c].op = "list" =>
             \A n \in ProviderNames : Count(rres[c], n) = Count(NamesOf(expect), n)

\* C5 witness: p2 then p1 are registered, both named "x", and a lookup of
\* "x" has returned p2.
FirstOfDuplicatesReached ==
    \E c \in RegCallers :
      /\ rpc[c] = "unlock" /\ rreq[c].op = "get" /\ rreq[c].name = <<120>>
      /\ expect = <<"p2", "p3", "p1">>
      /\ rres[c] = Some("p2")

\* C6: remove_account_provider(name) leaves no entry of that name, and
\* while none has been registered since, get_account_provider(name)
\* returns None and list_account_providers does not contain name.
RemoveTakesAll ==
    \A c \in RegCallers :
      rpc[c] = "unlock" =>
        /\ rreq[c].op = "remove" =>
             \A i \in 1..Len(registry.vec) : provider_name(registry.vec[i]) # rreq[c].name
        /\ rreq[c].op = "get" /\ Count(NamesOf(expect), rreq[c].name) = 0 =>
             rres[c] = None
        /\ rreq[c].op = "list" =>
             \A n \in ProviderNames :
               Count(NamesOf(expect), n) = 0 => Count(rres[c], n) = 0

\* C6 witness: both providers named "x" were registered, a removal of "x"
\* has left only p3, and a later lookup of "x" has returned None.
RemoveTakesAllReached ==
    \E c \in RegCallers :
      /\ rpc[c] = "unlock" /\ rreq[c].op = "get" /\ rreq[c].name = <<120>>
      /\ added["p1"] = 1 /\ added["p2"] = 1 /\ added["p3"] = 1
      /\ registry.vec = <<"p3">>
      /\ rres[c] = None

\* C7: whenever no thread is inside the critical section, the registry
\* holds exactly the providers added and not since removed, in the order
\* they were added, duplicates included; and list_account_providers
\* returns their names in that order.
ListInRegistrationOrder ==
    /\ mutex = Free /\ registry.init => registry.vec = expect
    /\ \A c \in RegCallers :
         rpc[c] = "unlock" /\ rreq[c].op = "list" => rres[c] = NamesOf(expect)

\* C7 witness: p3 and p1 are what is left, in that order, of three
\* registrations and a removal, and a listing has returned "y", "x".
ListInRegistrationOrderReached ==
    \E c \in RegCallers :
      /\ rpc[c] = "unlock" /\ rreq[c].op = "list"
      /\ added["p3"] = 2 /\ added["p1"] = 1
      /\ expect = <<"p3", "p1", "p3">>
      /\ rres[c] = << <<121>>, <<120>>, <<121>> >>

(***************************************************************************)
(* Properties of key normalisation                                         *)
(***************************************************************************)
\* what the key convention asks of one character: ASCII letters and digits
\* in lowercase, '_' for everything else
ConventionChar(ch) ==
    CASE ch \in 65..90 -> ch + 32
      [] ch \in (97..122) \cup (48..57) -> ch
      [] OTHER -> 95

\* "account_provider_my_provider_"
MyProviderKey ==
    <<97, 99, 99, 111, 117, 110, 116, 95, 112, 114, 111, 118, 105, 100, 101, 114, 95,
      109, 121, 95, 112, 114, 111, 118, 105, 100, 101, 114, 95>>

\* C8: normalize_key gives one character per input character, each the
\* lowercase form of an ASCII letter or digit and '_' for anything else;
\* normalising a normalised name changes nothing; AccountStore::new(name)
\* has the key "account_provider_" followed by the normalised name, and
\* "My Provider!" gives "account_provider_my_provider_".
NormalizeKeyConvention ==
    /\ phase = "normalized" =>
         /\ Len(output[1]) = Len(input)
         /\ \A i \in 1..Len(input) : output[1][i] = ConventionChar(input[i])
    /\ phase = "renormalized" => output[2] = output[1]
    /\ phase = "key" =>
         /\ SubSeq(output[1], 1, 17) = KeyPrefix
         /\ Len(output[1]) = 17 + Len(input)
         /\ \A i \in 1..Len(input) : output[1][17 + i] = ConventionChar(input[i])
         /\ input = MyProvider => output[1] = MyProviderKey

\* C8 witness: the key of the store made for "My Provider!" has been
\* computed.
NormalizeKeyConventionReached ==
    /\ phase = "key"
    /\ input = MyProvider
    /\ output = <<MyProviderKey>>

(***************************************************************************)
(* Properties of the account store                                         *)
(***************************************************************************)
\* what a load finds when the host holds stored at the key and the bridge
\* call goes through
LoadOf(stored) ==
    local_storage_get_json(Ok(IF stored.some THEN stored.v ELSE JNull))

\* the operation failed because the bridge call failed or was refused
BridgeFailed(res) ==
    /\ ~res.ok
    /\ res.err.msg \in {"localStorage get_json", "localStorage set_json",
                        "localStorage remove",
                        "frontend rejected localStorage set_json",
                        "frontend rejected localStorage remove"}

\* every character of s is whitespace (so also the empty string)
OnlyWhitespace(s) == \A i \in 1..Len(s) : is_whitespace(s[i])

\* caller c's operation op has returned
Returned(c, op) == pc[c] = "done" /\ req[c].op = op

\* C1: round trip. A load that follows a successful save of r, with no
\* other write of the key in between, returns Some(r), equal to r in every
\* field including all of extra (unless its own bridge call fails).
SaveLoadRoundTrip ==
    \A c \in Callers :
      ( /\ Returned(c, "load")
        /\ ~foreign[c]
        /\ lastSaved[req[c].key].some
        /\ ~BridgeFailed(result[c]) )
      => result[c] = Ok(Some(lastSaved[req[c].key].v))

\* C1 witness: a record with avatar, token and a nested extra map was
\* saved and the next load has returned it.
SaveLoadRoundTripReached ==
    \E c \in Callers :
      /\ Returned(c, "load") /\ ~foreign[c]
      /\ lastSaved[req[c].key].some
      /\ result[c].ok /\ result[c].v.some
      /\ result[c].v.v.avatar.some /\ result[c].v.v.token.some
      /\ DOMAIN result[c].v.v.extra = {"k1", "k2"}

\* C2: upsert_account with an empty or all-whitespace id returns the
\* validation error without invoking the bridge, and the value at the
\* store's key is what it was before the call.
BlankIdRejected ==
    \A c \in Callers :
      Returned(c, "upsert_account") /\ OnlyWhitespace(req[c].account.id) =>
        /\ result[c] = Err(anyhow("account id is required"))
        /\ calls[c] = <<>>
        /\ ~foreign[c] => storage[req[c].key] = before[c]

\* C2 witness: an upsert with the id "\t\u{3000}" has been refused while
\* the store held a record.
BlankIdRejectedReached ==
    \E c \in Callers :
      /\ Returned(c, "upsert_account") /\ req[c].account.id = Id_wide_blank
      /\ ~result[c].ok /\ ~foreign[c]
      /\ storage[req[c].key].some /\ lastSaved[req[c].key].some

\* C3: with a bridge that does not fail and nobody else writing,
\* remove_account(id) returns Ok; it leaves the stored value as it was
\* when the store is empty or holds a record with another id, and leaves
\* the store empty when the stored record's id is id.
RemoveOnlyMatching ==
    \A c \in Callers :
      ( /\ Returned(c, "remove_account")
        /\ ~foreign[c]
        /\ ~BridgeFailed(result[c])
        /\ LoadOf(before[c]).ok )
      => /\ result[c] = Ok(Unit)
         /\ IF LoadOf(before[c]).v.some /\ LoadOf(before[c]).v.v.id = req[c].account_id
            THEN /\ storage[req[c].key] = None
                 /\ LoadOf(storage[req[c].key]) = Ok(None)
            ELSE /\ storage[req[c].key] = before[c]
                 /\ calls[c] = <<METHOD_STORAGE_GET_JSON>>

\* C3 witness: remove_account("A") has returned Ok while the store holds
\* the record with id "a", untouched.
RemoveOnlyMatchingReached ==
    \E c \in Callers :
      /\ Returned(c, "remove_account") /\ req[c].account_id = Id_upper_a
      /\ ~foreign[c] /\ result[c] = Ok(Unit)
      /\ LoadOf(before[c]).ok /\ LoadOf(before[c]).v.some
      /\ LoadOf(before[c]).v.v.id = Id_a
      /\ storage[req[c].key] = before[c]

\* C9: single slot. list_accounts never returns two or more records; with
\* nobody else writing it returns no record when load finds None and
\* exactly the loaded record otherwise.
SingleSlot ==
    \A c \in Callers :
      Returned(c, "list_accounts") /\ result[c].ok =>
        /\ Len(result[c].v) <= 1
        /\ ~foreign[c] =>
             /\ LoadOf(storage[req[c].key]).ok
             /\ IF LoadOf(storage[req[c].key]).v.some
                THEN result[c].v = <<LoadOf(storage[req[c].key]).v.v>>
                ELSE result[c].v = <<>>

\* C9 witness: list_accounts has returned the one record last saved.
SingleSlotReached ==
    \E c \in Callers :
      /\ Returned(c, "list_accounts") /\ result[c].ok /\ ~foreign[c]
      /\ lastSaved[req[c].key].some
      /\ lastSaved[req[c].key].v.id = Id_b
      /\ result[c].v = <<lastSaved[req[c].key].v>>

\* C10: full overwrite. An upsert_account that returns Ok returns its
\* argument unchanged; with nobody else writing, the stored value is then
\* exactly that record, whatever was stored before, and get_account finds
\* nothing under any other id.
UpsertOverwrites ==
    \A c \in Callers :
      Returned(c, "upsert_account") /\ result[c].ok =>
        /\ ~OnlyWhitespace(req[c].account.id)
        /\ result[c].v = req[c].account
        /\ ~foreign[c] =>
             /\ storage[req[c].key] = Some(to_value(req[c].account))
             /\ LoadOf(storage[req[c].key]) = Ok(Some(req[c].account))
             /\ \A id \in AccountIds \ {req[c].account.id} :
                  get_account_of(LoadOf(storage[req[c].key]), id) = Ok(None)

\* C10 witness: the record with id "b" has replaced a stored record with
\* id "a" that had an avatar, a token and two extra keys.
UpsertOverwritesReached ==
    \E c \in Callers :
      /\ Returned(c, "upsert_account") /\ result[c].ok /\ ~foreign[c]
      /\ req[c].account.id = Id_b
      /\ LoadOf(before[c]).ok /\ LoadOf(before[c]).v.some
      /\ LoadOf(before[c]).v.v.id = Id_a
      /\ DOMAIN LoadOf(before[c]).v.v.extra = {"k1", "k2"}
      /\ LoadOf(storage[req[c].key]).v.v.id = Id_b

\* C11: with nobody else writing and a stored value that decodes,
\* get_account(id) returns Some(record) exactly when a record is stored and
\* its id is the very string id (no trimming, no case folding), and None
\* when nothing is stored or the stored id differs; whatever it returns, it
\* has made one get_json call and no other, and the store is as it was.
GetAccountExact ==
    \A c \in Callers :
      Returned(c, "get_account") =>
        /\ calls[c] = <<METHOD_STORAGE_GET_JSON>>
        /\ ~foreign[c] => storage[req[c].key] = before[c]
        /\ ( /\ ~foreign[c]
             /\ ~BridgeFailed(result[c])
             /\ LoadOf(before[c]).ok )
           => /\ result[c].ok
              /\ result[c].v.some <=>
                   /\ LoadOf(before[c]).v.some
                   /\ LoadOf(before[c]).v.v.id = req[c].account_id
              /\ result[c].v.some => result[c].v = LoadOf(before[c]).v

\* C11 witness: get_account("a") has returned None while the store holds
\* the record whose id is " a", and get_account finds nothing for "a"
\* when the stored id is "A".
GetAccountExactReached ==
    \E c \in Callers :
      /\ Returned(c, "get_account") /\ req[c].account_id = Id_a
      /\ ~foreign[c] /\ result[c] = Ok(None)
      /\ LoadOf(before[c]).ok /\ LoadOf(before[c]).v.some
      /\ LoadOf(before[c]).v.v.id \in {Id_space_a, Id_upper_a}
      /\ storage[req[c].key] = before[c]

\* what went wrong in one invoke_frontend call, told from its outcome:
\* the call failed, it was answered with success = false, or get_json
\* answered with a value that is no AccountRecord
FailureOf(method, reply) ==
    CASE ~reply.ok -> "transport"
      [] reply.ok /\ method # METHOD_STORAGE_GET_JSON ->
           IF reply.v.success THEN "none" ELSE "rejection"
      [] OTHER ->
           IF reply.v.t # "null" /\ ~from_value(reply.v).ok
           THEN "serialization" ELSE "none"

\* what a caller can tell from the error it is handed: its message and
\* the cause the message wraps
ErrorKind(e) ==
    CASE /\ e.msg \in {"localStorage get_json", "localStorage set_json",
                       "localStorage remove"}
         /\ e.cause = "invoke_frontend" -> "transport"
      [] /\ e.msg \in {"frontend rejected localStorage set_json",
                       "frontend rejected localStorage remove"}
         /\ e.cause = "none" -> "rejection"
      [] /\ e.msg = "deserialize value stored in localStorage"
         /\ e.cause \notin {"none", "invoke_frontend"} -> "serialization"
      [] OTHER -> "other"

\* C12: an operation whose last bridge call failed returns an error that
\* tells which failure it was: a failed call, a refusal (success = false,
\* for set_json and remove) and a stored value that does not decode give
\* three different errors; a get_json answered with null (absent key) is
\* no error: load returns None.
BridgeFailuresDistinct ==
    \A c \in Callers :
      (pc[c] = "done" /\ replies[c] # <<>>) =>
        LET n == Len(replies[c])
            f == FailureOf(calls[c][n], replies[c][n])
        IN /\ Len(calls[c]) = n
           /\ result[c].ok <=> f = "none"
           /\ ~result[c].ok => ErrorKind(result[c].err) = f
           /\ (req[c].op = "load" /\ replies[c] = <<Ok(JNull)>>)
                => result[c] = Ok(None)

\* C12 witness: a load has failed because the stored value does not
\* decode, and the error it returned is the deserialization error.
BridgeFailuresDistinctReached ==
    \E c \in Callers :
      /\ Returned(c, "load") /\ Len(replies[c]) = 1
      /\ replies[c][1].ok /\ replies[c][1].v.t = "object"
      /\ ~result[c].ok /\ ErrorKind(result[c].err) = "serialization"

\* the bridge calls an operation may have made, in order, once it is past
\* its first call
CallsAllowed(op) ==
    CASE op \in {"load", "list_accounts", "get_account"} ->
           { <<METHOD_STORAGE_GET_JSON>> }
      [] op = "save" -> { <<METHOD_STORAGE_SET_JSON>> }
      [] op = "upsert_account" -> { <<>>, <<METHOD_STORAGE_SET_JSON>> }
      [] op = "clear" -> { <<METHOD_STORAGE_REMOVE>> }
      [] op = "remove_account" ->
           { <<METHOD_STORAGE_GET_JSON>>,
             <<METHOD_STORAGE_GET_JSON, METHOD_STORAGE_REMOVE>> }
      [] OTHER -> { <<>> }

\* C13: a store operation makes each bridge call at most once
\* (remove_account: one get_json, then at most one remove), and a bridge
\* call that fails (failed call, refusal, undecodable value) is the
\* operation's last: the operation has returned an error and made no call
\* after it.
FailFast ==
    \A c \in Callers :
      pc[c] # "idle" =>
        /\ calls[c] \in CallsAllowed(req[c].op)
        /\ Len(replies[c]) <= Len(calls[c])
        /\ \A i \in 1..Len(replies[c]) :
             FailureOf(calls[c][i], replies[c][i]) # "none" =>
               /\ i = Len(calls[c])
               /\ pc[c] = "done"
               /\ ~result[c].ok

\* C13 witness: remove_account found its record, its remove was refused,
\* and it has returned the error after those two calls.
FailFastReached ==
    \E c \in Callers :
      /\ Returned(c, "remove_account") /\ ~result[c].ok
      /\ calls[c] = <<METHOD_STORAGE_GET_JSON, METHOD_STORAGE_REMOVE>>
      /\ Len(replies[c]) = 2
      /\ FailureOf(calls[c][1], replies[c][1]) = "none"
      /\ FailureOf(calls[c][2], replies[c][2]) = "rejection"

(***************************************************************************)
(* AccountRecord: the extra map and its typed reads                        *)
(***************************************************************************)
\* the keys read and written in extra; no record of the model holds "k3"
ExtraKeys == {"k1", "k2", "k3"}

\* the values put into extra
ExtraValues ==
    { JNull, JNum(1), JNum(300), JNum(-1), JStr(<<120>>), JStr(<<>>),
      JArr(<<JNum(1), JNull>>), JObj([z |-> JNull]) }

\* the types T that extra_as is asked for
ExtraTypes == {"i64", "u8", "String", "Option<String>", "Vec<Value>", "Value"}

\* serde_json::from_value::<T>(value), for the types of ExtraTypes
from_value_as(T, value) ==
    CASE T = "i64" ->
           IF value.t = "number" THEN Ok(value.n) ELSE Err("invalid type")
      [] T = "u8" ->
           IF value.t # "number" THEN Err("invalid type")
           ELSE IF value.n \in 0..255 THEN Ok(value.n) ELSE Err("invalid value")
      [] T = "String" -> de_string(value)
      [] T = "Option<String>" -> de_option_string(value)
      [] T = "Vec<Value>" ->
           IF value.t = "array" THEN Ok(value.a) ELSE Err("invalid type")
      [] T = "Value" -> Ok(value)

\* Result::ok
result_ok(res) == IF res.ok THEN Some(res.v) ELSE None

\* AccountRecord::extra_value: self.extra.get(key)
extra_value(self, k) ==
    IF k \in DOMAIN self.extra THEN Some(self.extra[k]) ELSE None

\* A variant of extra_as that answers a value of the wrong shape with an
\* empty one instead of None.
extra_as_or_empty(self, k, T) ==
    LET value == extra_value(self, k) IN
    IF value.some
    THEN LET d == from_value_as(T, value.v) IN Some(IF d.ok THEN d.v ELSE <<>>)
    ELSE None

\* AccountRecord::extra_as::<T>:
\* self.extra_value(key).and_then(|value| from_value(value.clone()).ok())
extra_as(self, k, T) ==
    LET value == extra_value(self, k) IN
    IF value.some THEN result_ok(from_value_as(T, value.v)) ELSE None

\* Map::insert
map_insert(m, k, value) ==
    [x \in DOMAIN m \cup {k} |-> IF x = k THEN value ELSE m[x]]

\* Map::remove
map_remove(m, k) == [x \in DOMAIN m \ {k} |-> m[x]]

\* AccountRecord::set_extra_value: the record afterwards
set_extra_value(self, k, value) ==
    [self EXCEPT !.extra = map_insert(self.extra, k, value)]

\* AccountRecord::remove_extra: the record afterwards
remove_extra(self, k) == [self EXCEPT !.extra = map_remove(self.extra, k)]

InitExtra ==
    /\ input \in [record : Accounts, key : ExtraKeys, T : ExtraTypes]
    /\ output = <<>>
    /\ phase = "input"

\* record.set_extra_value(k, value), once, before the reads
SetExtra ==
    /\ phase = "input"
    /\ \E k \in ExtraKeys, value \in ExtraValues :
         input' = [input EXCEPT !.record = set_extra_value(@, k, value)]
    /\ output' = <<>>
    /\ phase' = "set_extra_value"
    /\ UNCHANGED <<storeVars, regVars>>

\* record.remove_extra(k), once, before the reads
RemoveExtra ==
    /\ phase = "input"
    /\ \E k \in ExtraKeys :
         /\ input' = [input EXCEPT !.record = remove_extra(@, k)]
         /\ output' = <<extra_value(input.record, k)>>
    /\ phase' = "remove_extra"
    /\ UNCHANGED <<storeVars, regVars>>

\* record.extra_value(key)
ExtraValue ==
    /\ phase \in {"input", "set_extra_value", "remove_extra"}
    /\ output' = <<extra_value(input.record, input.key)>>
    /\ phase' = "extra_value"
    /\ UNCHANGED <<input, storeVars, regVars>>

\* record.extra_as::<T>(key)
ExtraAs ==
    /\ phase \in {"input", "set_extra_value", "remove_extra", "extra_value"}
    /\ output' = <<extra_as(input.record, input.key, input.T)>>
    /\ phase' = "extra_as"
    /\ UNCHANGED <<input, storeVars, regVars>>

InitRecords == InitStore /\ InitReg /\ InitExtra

NextExtra == SetExtra \/ RemoveExtra \/ ExtraValue \/ ExtraAs

SpecExtra == InitRecords /\ [][NextExtra]_vars

\* the JSON value v has the shape of a T
Matches(T, v) ==
    CASE T = "i64" -> v.t = "number"
      [] T = "u8" -> v.t = "number" /\ v.n >= 0 /\ v.n <= 255
      [] T = "String" -> v.t = "string"
      [] T = "Option<String>" -> v.t \in {"null", "string"}
      [] T = "Vec<Value>" -> v.t = "array"
      [] T = "Value" -> TRUE

\* the T that a matching JSON value v stands for
Meaning(T, v) ==
    CASE T \in {"i64", "u8"} -> v.n
      [] T = "String" -> v.s
      [] T = "Option<String>" -> IF v.t = "null" THEN None ELSE Some(v.s)
      [] T = "Vec<Value>" -> v.a
      [] T = "Value" -> v

\* the result of the last extra_as, told from the extra map of the record
\* it was called on
ExtraAsResult ==
    phase = "extra_as" =>
      LET extra == input.record.extra
          present == input.key \in DOMAIN extra
      IN /\ Len(output) = 1
         /\ output[1].some <=> (present /\ Matches(input.T, extra[input.key]))
         /\ output[1].some => output[1].v = Meaning(input.T, extra[input.key])

\* C14: extra_as::<T>(key) returns None when key is absent from extra and
\* when the value under key does not have the shape of T, and Some(v), v
\* the value read as a T, when it has; the call and extra_value leave the
\* record as it was.
ExtraAsTyped ==
    /\ []ExtraAsResult
    /\ [][phase' \in {"extra_as", "extra_value"} => input' = input]_vars

\* C14 witness: extra_as::<u8> has returned None for a key that is present
\* with the number 300, after set_extra_value put it there.
ExtraAsTypedReached ==
    /\ phase = "extra_as" /\ input.T = "u8"
    /\ input.key \in DOMAIN input.record.extra
    /\ input.record.extra[input.key] = JNum(300)
    /\ output = <<None>>

(***************************************************************************)
(* remove_account against concurrent upsert_account on one store           *)
(***************************************************************************)
\* the caller that removes and the caller that upserts meanwhile
Removers == {"c1"}
Upserters == {"c2"}

NextRace ==
    \/ \E c \in Removers, s \in Stores, id \in AccountIds : remove_account(c, s, id)
    \/ \E c \in Upserters, s \in Stores, a \in Accounts : upsert_account(c, s, a)
    \/ \E c \in Callers : get_json_returns(c)
    \/ \E c \in Callers : set_json_returns(c)
    \/ \E c \in Callers : remove_returns(c)
    \/ \E c \in Callers : Return(c)

SpecRace == Init /\ [][NextRace]_vars

\* this step is the host carrying out the remove of c's remove_account,
\* and the key held a value
ClearDeletes(c) ==
    /\ req[c].op = "remove_account"
    /\ pc[c] = METHOD_STORAGE_REMOVE /\ pc'[c] = "done"
    /\ storage[req[c].key].some
    /\ storage'[req[c].key] = None

\* the id of the record the host holds at c's key
StoredId(c) == LoadOf(storage[req[c].key]).v.v.id

\* C15 as stated: whatever upsert_account calls run meanwhile, the remove
\* that remove_account(id) issues never deletes a record whose id is not id.
RemoveNeverDeletesOther ==
    [][ \A c \in Callers :
          ClearDeletes(c) => StoredId(c) = req[c].account_id ]_vars

\* C15, amended: remove_account(id) issues its remove only after its own
\* load returned a record whose id is id, and the remove deletes a record
\* with another id only when the key was written by another caller after
\* remove_account began: the record found by the load has been replaced.
RemoveDeletesWhatClearFinds ==
    [][ \A c \in Callers :
          ClearDeletes(c) =>
            /\ local_storage_get_json(replies[c][1]).v.v.id = req[c].account_id
            /\ StoredId(c) # req[c].account_id => foreign[c] ]_vars

\* C15 witness: remove_account(id) loaded its record, an upsert_account of
\* a record with another id succeeded meanwhile, and the remove has left
\* the store empty: the upserted record is gone.
RemoveDeletesWhatClearFindsReached ==
    \E c \in Removers, d \in Upserters :
      /\ Returned(c, "remove_account") /\ result[c] = Ok(Unit)
      /\ calls[c] = <<METHOD_STORAGE_GET_JSON, METHOD_STORAGE_REMOVE>>
      /\ foreign[c]
      /\ Returned(d, "upsert_account") /\ result[d].ok
      /\ req[d].account.id # req[c].account_id
      /\ req[d].key = req[c].key
      /\ storage[req[c].key] = None

\* thread c is between taking the guard and dropping it
InCriticalSection(c) == rpc[c] \in {"body", "push", "unlock"}

\* what the function thread c has finished returns when the functions that
\* took the lock so far are run one after the other
SequentialResult(c) ==
    CASE rreq[c].op = "get"  -> FirstNamed(expect, rreq[c].name)
      [] rreq[c].op = "list" -> NamesOf(expect)
      [] OTHER               -> Unit

\* C16: each registry function runs as one critical section under the
\* lock: a thread inside one holds the mutex, so no two are inside at once;
\* a get or list reads a registry in which no add or remove is half done,
\* so with a remove_account_provider(name) waiting or finished it sees all
\* or none of name's entries; every function returns, and leaves the
\* registry in, what running the functions one after the other in the
\* order they took the lock gives.  The mutex is held only by a thread at
\* one of those steps, none of which awaits anything.
RegistryAtomic ==
    \A c \in RegCallers :
      /\ InCriticalSection(c) => mutex = c
      /\ mutex = c => InCriticalSection(c)
      /\ (InCriticalSection(c) /\ rreq[c].op \in {"get", "list"})
           => /\ registry.vec = expect
              /\ \A d \in RegCallers \ {c} : ~InCriticalSection(d)
      /\ rpc[c] = "unlock"
           => /\ rres[c] = SequentialResult(c)
              /\ registry.vec = expect
      /\ (rpc[c] = "unlock" /\ rreq[c].op = "list")
           => \A d \in RegCallers \ {c} :
                (rreq[d].op = "remove" /\ rpc[d] = "lock")
                  => Count(rres[c], rreq[d].name)
                       = Count(NamesOf(registry.vec), rreq[d].name)

\* C16 witness: remove_account_provider("x") has dropped one of the two
\* entries named "x" and not yet the other, while another thread that
\* called get_account_provider("x") or list_account_providers waits for
\* the lock.
RegistryAtomicReached ==
    \E c, d \in RegCallers :
      /\ rpc[c] = "body" /\ rreq[c].op = "remove" /\ rreq[c].name = <<120>>
      /\ Count(NamesOf(registry.vec), <<120>>) = 1
      /\ Count(NamesOf(registry.vec), <<120>>) # Count(NamesOf(expect), <<120>>)
      /\ rpc[d] = "lock" /\ rreq[d].op \in {"get", "list"}

\* this step is taken by thread c: no other thread moves
StepOf(c) ==
    \A d \in RegCallers \ {c} : rpc'[d] = rpc[d] /\ rreq'[d] = rreq[d]

\* the registry exists as soon as a function has been entered, and a get or
\* list that ends with no provider ever added returns None or the empty list
RegistryLazy ==
    \A c \in RegCallers :
      /\ rpc[c] # "idle" => registry.init
      /\ (rpc[c] = "unlock" /\ Total(added, Providers) = 0)
           => /\ registry = Inited(<<>>)
              /\ rreq[c].op = "get" => rres[c] = None
              /\ rreq[c].op = "list" => rres[c] = <<>>

\* a step creates the registry empty or leaves it in existence; it changes
\* the contents only as the push of an add or the retain of a remove by the
\* thread holding the mutex, and an entry leaves only in a retain whose
\* name is the entry's provider_name()
RegistryKeeps ==
    /\ ~registry.init => (registry' = registry \/ registry' = Inited(<<>>))
    /\ registry.init =>
         /\ registry'.init
         /\ registry'.vec # registry.vec =>
              \E c \in RegCallers :
                /\ mutex = c /\ StepOf(c)
                /\ \/ rreq[c].op = "add" /\ rpc[c] = "push"
                   \/ rreq[c].op = "remove" /\ rpc[c] = "body"
         /\ \A p \in Providers :
              Count(registry'.vec, p) < Count(registry.vec, p) =>
                \E c \in RegCallers :
                  /\ mutex = c /\ StepOf(c)
                  /\ rreq[c].op = "remove" /\ rpc[c] = "body"
                  /\ rreq[c].name = provider_name(p)

\* C17: the registry is created empty by the first function entered (a get
\* or list on a registry never added to returns None or the empty list)
\* and is never created again; get and list leave the contents as they
\* are, and a registered provider stays until a remove_account_provider
\* whose name is its provider_name().
RegistryPersists == []RegistryLazy /\ [][RegistryKeeps]_vars

\* C17 witness: with no provider ever added, get_account_provider has
\* returned None from the registry it found or created empty; and the
\* other thread is about to enter the registry, already created, again.
RegistryPersistsReached ==
    \E c, d \in RegCallers :
      /\ rpc[c] = "unlock" /\ rreq[c].op = "get" /\ rres[c] = None
      /\ Total(added, Providers) = 0
      /\ registry = Inited(<<>>)
      /\ d # c /\ rpc[d] = "idle"

(***************************************************************************)
(* AccountProvider::get_account, the provided method                       *)
(***************************************************************************)
\* the records a provider lists: two with the id "a", one with the id "b"
ListedAccounts ==
    { a \in Accounts : a.id \in {Id_a, Id_b} }

RECURSIVE ListsUpTo(_)
ListsUpTo(n) ==
    IF n = 0 THEN { <<>> }
    ELSE LET shorter == ListsUpTo(n - 1) IN
         shorter \cup { Append(l, a) : l \in shorter, a \in ListedAccounts }

\* what a provider's list_accounts may return
Listings ==
    { Ok(l) : l \in ListsUpTo(MaxListed) } \cup { Err(anyhow("list_accounts")) }

\* one caller of get_account: a provider over a store, a provider over a
\* listing, and the store's own get_account, with saves and the host page
\* filling the store
NextProvider ==
    \/ \E c \in SeqCallers, s \in Stores, a \in Accounts : save(c, s, a)
    \/ \E c \in SeqCallers, s \in Stores, id \in AccountIds : get_account(c, s, id)
    \/ \E c \in SeqCallers, s \in Stores, id \in AccountIds :
         provider_get_account(c, s, id)
    \/ \E c \in SeqCallers, listed \in Listings, id \in AccountIds :
         listing_get_account(c, listed, id)
    \/ \E c \in SeqCallers : list_accounts_returns(c)
    \/ \E c \in SeqCallers : get_json_returns(c)
    \/ \E c \in SeqCallers : set_json_returns(c)
    \/ \E c \in SeqCallers : Return(c)
    \/ \E k \in Keys : HostWrite(k)

SpecProvider == Init /\ [][NextProvider]_vars

\* r is what find returns on the list l for id: the first record of l whose
\* id is id, or None when l has none
FirstWithId(l, id, r) ==
    IF r.some
    THEN \E i \in 1..Len(l) :
           /\ l[i] = r.v /\ l[i].id = id
           /\ \A j \in 1..(i - 1) : l[j].id # id
    ELSE \A i \in 1..Len(l) : l[i].id # id

\* C18: the provided get_account awaits list_accounts once and returns the
\* first listed record whose id is id, None when no listed record has it,
\* and the error of list_accounts itself when that fails; over a store,
\* it makes the one get_json of list_accounts and returns what the store's
\* get_account returns on the same reply: the stored record when its id is
\* id, None otherwise, the load's error when the load fails.
DefaultGetAccount ==
    \A c \in Callers :
      /\ Returned(c, "listing_get_account") =>
           /\ calls[c] = <<"list_accounts">>
           /\ IF req[c].listed.ok
              THEN /\ result[c].ok
                   /\ FirstWithId(req[c].listed.v, req[c].account_id, result[c].v)
              ELSE result[c] = req[c].listed
      /\ Returned(c, "provider_get_account") =>
           /\ calls[c] = <<METHOD_STORAGE_GET_JSON>>
           /\ Len(replies[c]) = 1
           /\ result[c] = get_account_of(local_storage_get_json(replies[c][1]),
                                        req[c].account_id)
           /\ ~replies[c][1].ok =>
                result[c] = Err(with_context("localStorage get_json", replies[c][1].err))
           /\ (~foreign[c] /\ LoadOf(before[c]).ok /\ ~BridgeFailed(result[c])) =>
                /\ result[c].ok
                /\ result[c].v.some <=>
                     /\ LoadOf(before[c]).v.some
                     /\ LoadOf(before[c]).v.v.id = req[c].account_id
                /\ result[c].v.some => result[c].v = LoadOf(before[c]).v

\* C18 witness: list_accounts returned two records with the id asked for,
\* and get_account has returned the first of them.
DefaultGetAccountReached ==
    \E c \in Callers :
      /\ Returned(c, "listing_get_account")
      /\ req[c].listed.ok /\ Len(req[c].listed.v) = 2
      /\ req[c].listed.v[1].id = req[c].account_id
      /\ req[c].listed.v[2].id = req[c].account_id
      /\ req[c].listed.v[1] # req[c].listed.v[2]
      /\ result[c] = Ok(Some(req[c].listed.v[1]))

(***************************************************************************)
(* Two components, each with the store it made for its own provider name   *)
(***************************************************************************)
\* the provider name each caller made its store for: "A B" and "a_b"
StoreNameOf(c) == IF c = "c1" THEN <<65, 32, 66>> ELSE <<97, 95, 98>>

\* AccountStore::new(name), as each caller made it
StoreOf(c) == AccountStore_new(StoreNameOf(c))

\* the ids removed through those stores
AliasIds == {Id_a, Id_b}

NextAlias ==
    \/ \E c \in Callers : load(c, StoreOf(c))
    \/ \E c \in Callers, a \in ListedAccounts : save(c, StoreOf(c), a)
    \/ \E c \in Callers : clear(c, StoreOf(c))
    \/ \E c \in Callers, id \in AliasIds : remove_account(c, StoreOf(c), id)
    \/ \E c \in Callers : get_json_returns(c)
    \/ \E c \in Callers : set_json_returns(c)
    \/ \E c \in Callers : remove_returns(c)
    \/ \E c \in Callers : Return(c)

SpecAlias == Init /\ [][NextAlias]_vars

\* C19: the stores made for "A B" and for "a_b" have the same key and so
\* one slot: with nobody writing meanwhile, a load through one returns the
\* record the other's finished save wrote last, and after a clear, or a
\* remove_account that found its record, through one, the other's key
\* holds nothing; both operations succeed as on a store of their own.
SharedSlot ==
    \A c \in Callers : \A d \in Callers \ {c} :
      /\ StoreNameOf(c) # StoreNameOf(d)
      /\ key(StoreOf(c)) = key(StoreOf(d))
      /\ ( /\ Returned(c, "load") /\ ~foreign[c] /\ ~BridgeFailed(result[c])
           /\ Returned(d, "save") /\ result[d].ok
           /\ lastSaved[req[d].key] = Some(req[d].account) )
         => result[c] = Ok(Some(req[d].account))
      /\ ( /\ \/ Returned(c, "clear")
              \/ /\ Returned(c, "remove_account")
                 /\ calls[c] = <<METHOD_STORAGE_GET_JSON, METHOD_STORAGE_REMOVE>>
           /\ ~foreign[c] /\ result[c].ok )
         => /\ result[c] = Ok(Unit)
            /\ storage[key(StoreOf(d))] = None
            /\ LoadOf(storage[key(StoreOf(d))]) = Ok(None)

\* C19 witness: the caller whose store was made for "A B" has saved a
\* record, and the caller whose store was made for "a_b" has loaded that
\* record.
SharedSlotReached ==
    \E c, d \in Callers :
      /\ StoreNameOf(d) = <<65, 32, 66>> /\ StoreNameOf(c) = <<97, 95, 98>>
      /\ Returned(d, "save") /\ result[d].ok
      /\ Returned(c, "load") /\ ~foreign[c]
      /\ result[c] = Ok(Some(req[d].account))

====
